---- MODULE Spec2Model ----
(***************************************************************************)
(* Model of the Exasol challenge client (src/src/ExasolClient.cpp):        *)
(* the protocol loop ExasolClient::communicate and the parallel            *)
(* proof-of-work search it runs for a POW command.                         *)
(*                                                                         *)
(* Text is modelled byte for byte: a std::string is a string of the same   *)
(* characters.  The counters of the workers are unsigned                   *)
(* integers of CounterBits bits (64 in the source, scaled down here), and  *)
(* the OpenSSL digest is a small deterministic stand-in with the library's *)
(* Init/Update/Final shape and a 20-byte result.                           *)
(***************************************************************************)
EXTENDS Integers, Sequences, FiniteSets, TLC

(***************************************************************************)
(* Bounds of the model.                                                    *)
(***************************************************************************)
\* width of the workers' counters in bits (uint64_t in the source)
CounterBits == 3
\* largest value std::thread::hardware_concurrency() reports
MaxThreads == 3
\* largest hardware_concurrency() of the solves followed under fairness
MaxFairThreads == 2
\* number of transport reads of a session followed with its history
MaxSessionReads == 4
\* largest hardware_concurrency() of the sessions followed with their history
MaxSessionThreads == 1
\* probes between two reads of the found flag (4096 in the source)
CHECK_INTERVAL == 2
\* number of transport reads of one session
MaxReads == 2

\* the configured ports are at most MaxPorts
MaxPorts == 3

\* at most MaxCalls calls are made on a client after connect
MaxCalls == 2

SHA_DIGEST_LENGTH == 20

UINT64_MOD == 2 ^ CounterBits

(***************************************************************************)
(* Bytes and text.  A std::string is a string; s[i] of the source is       *)
(* Char(s, i + 1).                                                         *)
(***************************************************************************)
Char(s, i) == SubSeq(s, i, i)

\* the characters of codes 32..126 in order; the double quote (34) and the
\* backquote (96) cannot be written in a string here and are held by "\n"
Printable ==
  " !\n#$%&'()*+,-./0123456789:;<=>?@ABCDEFGHIJKLMNOPQRSTUVWXYZ[\\]^_\nabcdefghijklmnopqrstuvwxyz{|}~"

CodeOf(c) ==
  IF c = "\t" THEN 9
  ELSE IF c = "\n" THEN 10
  ELSE IF c = "\r" THEN 13
  ELSE 31 + (CHOOSE i \in 1..Len(Printable) : Char(Printable, i) = c)

OrdTable ==
  [c \in {Char(Printable, i) : i \in 1..Len(Printable)} \cup {"\t", "\r"} |->
     CodeOf(c)]

\* the byte value of a character (reinterpret_cast<const unsigned char*>)
Ord(c) == OrdTable[c]

Bytes(s) == [i \in 1..Len(s) |-> Ord(Char(s, i))]

DigitChars == "0123456789"

IsDigit(c) == \E i \in 1..Len(DigitChars) : Char(DigitChars, i) = c

DigitValue(c) == (CHOOSE i \in 1..Len(DigitChars) : Char(DigitChars, i) = c) - 1

\* std::to_string(uint64_t): decimal text, no sign, no leading zeros
RECURSIVE to_string(_)
to_string(n) ==
  IF n < 10 THEN Char(DigitChars, n + 1)
  ELSE to_string(n \div 10) \o Char(DigitChars, (n % 10) + 1)

HexChars == "0123456789abcdef"

(***************************************************************************)
(* The digest.  SHA_CTX is the running state h and the number of bytes     *)
(* absorbed; SHA1 of a buffer is Init, Update with the buffer, Final.      *)
(***************************************************************************)
SHA1_Init == [h |-> 5381, Nl |-> 0]

RECURSIVE SHA1_Absorb(_, _, _)
SHA1_Absorb(h, data, i) ==
  IF i > Len(data) THEN h
  ELSE SHA1_Absorb((h * 33 + data[i]) % 65536, data, i + 1)

SHA1_Update(ctx, data) ==
  [h |-> SHA1_Absorb(ctx.h, data, 1), Nl |-> ctx.Nl + Len(data)]

SHA1_Final(ctx) ==
  LET x == ctx.h + ctx.Nl
      \* (x * 40503) % 65536, the product taken on the two bytes of x apart
      f == ((((x \div 256) * 40503) % 256) * 256 + (x % 256) * 40503) % 65536
  IN  [i \in 0..(SHA_DIGEST_LENGTH - 1) |->
         IF i = 0 THEN f \div 256
         ELSE IF i = 1 THEN f % 256
         ELSE ((f + i) * 37) % 256]

SHA1(data) == SHA1_Final(SHA1_Update(SHA1_Init, data))

\* sha1_raw(data, len, out): the digest of the bytes of a string
sha1_raw(s) == SHA1(Bytes(s))

\* int division of C++ truncates toward zero
TruncDiv(a, b) == IF a >= 0 THEN a \div b ELSE -((-a) \div b)

\* check_difficulty: int full_bytes = difficulty / 2
full_bytes_of(difficulty) == TruncDiv(difficulty, 2)

\* check_difficulty with the mask of the odd nibble on the low half of the byte
check_difficulty_LowNibble(mem, difficulty) ==
  LET full_bytes == full_bytes_of(difficulty)
  IN  IF \E i \in 0..(full_bytes - 1) : mem[i] # 0 THEN FALSE
      ELSE IF difficulty % 2 = 1
        THEN mem[full_bytes] % 16 = 0
      ELSE TRUE

\* check_difficulty(hash, difficulty); mem maps every index the call can
\* read, also the ones outside hash[0..19], to the byte found there
check_difficulty(mem, difficulty) ==
  LET full_bytes == full_bytes_of(difficulty)
  IN  IF \E i \in 0..(full_bytes - 1) : mem[i] # 0 THEN FALSE
      ELSE IF difficulty % 2 = 1  \* difficulty & 1, also for a negative int
        THEN (mem[full_bytes] \div 16) * 16 = 0
      ELSE TRUE

\* ExasolClient::sha1_hex: two lowercase hex digits per byte of the digest
RECURSIVE HexOf(_, _)
HexOf(digest, i) ==
  IF i >= SHA_DIGEST_LENGTH THEN ""
  ELSE Char(HexChars, (digest[i] \div 16) + 1)
         \o Char(HexChars, (digest[i] % 16) + 1)
         \o HexOf(digest, i + 1)

sha1_hex(input) == HexOf(SHA1(Bytes(input)), 0)

(***************************************************************************)
(* Reading a command: trim, split, std::stoi.                              *)
(***************************************************************************)
\* data.find_last_not_of(" \t\r\n"); 0 stands for npos
find_last_not_of_ws(data) ==
  LET keep == {i \in 1..Len(data) : Char(data, i) \notin {" ", "\t", "\r", "\n"}}
  IN  IF keep = {} THEN 0 ELSE CHOOSE i \in keep : \A j \in keep : j <= i

Trim(data) ==
  LET end == find_last_not_of_ws(data)
  IN  IF end # 0 THEN SubSeq(data, 1, end) ELSE data

IsSpace(c) == c \in {" ", "\t", "\n", "\r"}

\* while (iss >> token) args.push_back(token)
RECURSIVE Tokens(_, _, _, _)
Tokens(data, i, token, args) ==
  IF i > Len(data)
    THEN IF token = "" THEN args ELSE Append(args, token)
  ELSE IF IsSpace(Char(data, i))
    THEN Tokens(data, i + 1, "", IF token = "" THEN args ELSE Append(args, token))
  ELSE Tokens(data, i + 1, token \o Char(data, i), args)

\* Split that cuts at every space, as std::getline(iss, token, ' ') would:
\* a text without a word yields one empty word
Split_AtEverySpace(data) ==
  LET words == Tokens(data, 1, "", <<>>)
  IN  IF words = <<>> THEN <<"">> ELSE words

Split(data) == Tokens(data, 1, "", <<>>)

RECURSIVE DigitsEnd(_, _)
DigitsEnd(str, i) ==
  IF i <= Len(str) /\ IsDigit(Char(str, i)) THEN DigitsEnd(str, i + 1) ELSE i

\* the value of the digits str[i..end-1], or -1 once it exceeds INT_MAX
RECURSIVE DigitsValue(_, _, _, _)
DigitsValue(str, i, end, acc) ==
  IF i >= end \/ acc = -1 THEN acc
  ELSE LET d == DigitValue(Char(str, i))
       IN  DigitsValue(str, i + 1, end,
                       IF acc > (2147483647 - d) \div 10 THEN -1 ELSE acc * 10 + d)

\* std::stoi(str): an optional sign and the longest run of digits after it;
\* throws std::invalid_argument without a digit and std::out_of_range when
\* the value is no int (magnitudes up to INT_MAX are told apart here)
stoi(str) ==
  LET signed == Len(str) > 0 /\ Char(str, 1) \in {"+", "-"}
      first  == IF signed THEN 2 ELSE 1
      end    == DigitsEnd(str, first)
      mag    == DigitsValue(str, first, end, 0)
      value  == IF signed /\ Char(str, 1) = "-" THEN -mag ELSE mag
  IN  [throws |-> end = first \/ mag = -1,
       value  |-> IF end = first \/ mag = -1 THEN 0 ELSE value]

(***************************************************************************)
(* The replies of communicate to the commands that run no solver.          *)
(***************************************************************************)
\* one identity branch: the hash of authdata + challenge, a space and the
\* answer when authenticated with a challenge, else the branch's refusal
\* IdentityReply without the test of authenticated
IdentityReply_NoAuthCheck(args, auth, isAuth, answer, refusal) ==
  IF Len(args) >= 2
    THEN sha1_hex(auth \o args[2]) \o " " \o answer
    ELSE refusal

IdentityReply(args, auth, isAuth, answer, refusal) ==
  IF isAuth /\ Len(args) >= 2
    THEN sha1_hex(auth \o args[2]) \o " " \o answer
    ELSE refusal

\* Response with HELO echoed back
Response_HeloEcho(args, auth, isAuth) ==
  IF args[1] = "HELO" THEN "HELO\n"
  ELSE IF args[1] = "POW" THEN "POW_ERROR: Insufficient arguments\n"
  ELSE IF args[1] = "POW2" THEN "POW2_ERROR: Insufficient arguments\n"
  ELSE IF args[1] = "END" THEN "OK\n"
  ELSE IF args[1] = "NAME" THEN
    IdentityReply(args, auth, isAuth, "Deepak Shivanandham\n",
                  "ERROR: NAME requires authentication\n")
  ELSE IF args[1] = "MAILNUM" THEN
    IdentityReply(args, auth, isAuth, "1\n",
                  "ERROR: MAILNUM requires authentication\n")
  ELSE IF args[1] = "MAIL1" THEN
    IdentityReply(args, auth, isAuth, "deepakshivanandham@hotmail.com\n",
                  "ERROR: MAIL1 requires authentication\n")
  ELSE IF args[1] = "SKYPE" THEN
    IdentityReply(args, auth, isAuth, "NA\n",
                  "ERROR: SKYPE requires authdata\n")
  ELSE IF args[1] = "BIRTHDATE" THEN
    IdentityReply(args, auth, isAuth, "06.02.1991\n",
                  "ERROR: BIRTHDATE requires authdata\n")
  ELSE IF args[1] = "COUNTRY" THEN
    IdentityReply(args, auth, isAuth, "india\n",
                  "ERROR: COUNTRY requires authdata\n")
  ELSE IF args[1] = "ADDRNUM" THEN
    IdentityReply(args, auth, isAuth, "2\n",
                  "ERROR: ADDRNUM requires authdata\n")
  ELSE IF args[1] = "ADDRLINE1" THEN
    IdentityReply(args, auth, isAuth, "25, GAJALAKSHMI NAGAR 1st CROSS STREET\n",
                  "ERROR: ADDRLINE1 requires authdata\n")
  ELSE IF args[1] = "ADDRLINE2" THEN
    IdentityReply(args, auth, isAuth, "CHROMPET,CHENNAI, TAMILNADU\n",
                  "ERROR: ADDRLINE2 requires authdata\n")
  ELSE "ERROR Unknown command\n"

\* the if/else chain of communicate on args[0], for every verb but ERROR
\* and a POW or POW2 with its two arguments
Response(args, auth, isAuth) ==
  IF args[1] = "HELO" THEN "EHLO\n"
  ELSE IF args[1] = "POW" THEN "POW_ERROR: Insufficient arguments\n"
  ELSE IF args[1] = "POW2" THEN "POW2_ERROR: Insufficient arguments\n"
  ELSE IF args[1] = "END" THEN "OK\n"
  ELSE IF args[1] = "NAME" THEN
    IdentityReply(args, auth, isAuth, "Deepak Shivanandham\n",
                  "ERROR: NAME requires authentication\n")
  ELSE IF args[1] = "MAILNUM" THEN
    IdentityReply(args, auth, isAuth, "1\n",
                  "ERROR: MAILNUM requires authentication\n")
  ELSE IF args[1] = "MAIL1" THEN
    IdentityReply(args, auth, isAuth, "deepakshivanandham@hotmail.com\n",
                  "ERROR: MAIL1 requires authentication\n")
  ELSE IF args[1] = "SKYPE" THEN
    IdentityReply(args, auth, isAuth, "NA\n",
                  "ERROR: SKYPE requires authdata\n")
  ELSE IF args[1] = "BIRTHDATE" THEN
    IdentityReply(args, auth, isAuth, "06.02.1991\n",
                  "ERROR: BIRTHDATE requires authdata\n")
  ELSE IF args[1] = "COUNTRY" THEN
    IdentityReply(args, auth, isAuth, "india\n",
                  "ERROR: COUNTRY requires authdata\n")
  ELSE IF args[1] = "ADDRNUM" THEN
    IdentityReply(args, auth, isAuth, "2\n",
                  "ERROR: ADDRNUM requires authdata\n")
  ELSE IF args[1] = "ADDRLINE1" THEN
    IdentityReply(args, auth, isAuth, "25, GAJALAKSHMI NAGAR 1st CROSS STREET\n",
                  "ERROR: ADDRLINE1 requires authdata\n")
  ELSE IF args[1] = "ADDRLINE2" THEN
    IdentityReply(args, auth, isAuth, "CHROMPET,CHENNAI, TAMILNADU\n",
                  "ERROR: ADDRLINE2 requires authdata\n")
  ELSE "ERROR Unknown command\n"

(***************************************************************************)
(* State.                                                                  *)
(*  hw             what std::thread::hardware_concurrency() reports        *)
(*  pc             where the protocol thread is in communicate:            *)
(*                 "read" (blocked in ssl_manager_->read), "pow_spawn"     *)
(*                 (the emplace_back loop), "pow_join" (the join loop),    *)
(*                 "returned" (communicate has returned); and in main:     *)
(*                 "finished" (disconnect done, main returns),             *)
(*                 "terminated" (std::terminate has ended the process)     *)
(*  authdata, authenticated   the locals of communicate                    *)
(*  written        what was passed to ssl_manager_->write since the last   *)
(*                 read returned                                           *)
(*  nreads         number of reads that returned so far                    *)
(*  cmd, pre       the args of the command last read and the session state *)
(*                 it was read in (history, not program state)             *)
(*  difficulty, found, found_suffix, result_mutex, base_ctx                *)
(*                 the locals of the POW / POW2 block                      *)
(*  spawned  progress of the two loops over threads                *)
(*  wpc, counter, batch  per worker: position, counter and batch index     *)
(*                 wpc: "idle" (no such thread), "probe" (top of the for   *)
(*                 body), "lock" (waiting for result_mutex), "publish"     *)
(*                 (found set, found_suffix not yet written), "check"      *)
(*                 (the load after a batch), "done" (returned)             *)
(*  probed, writers  history: the counters each worker hashed, and the     *)
(*                 workers that assigned found_suffix                      *)
(*  buffer, bytes_received  what the last ssl_manager_->read stored and    *)
(*                 returned                                                *)
(*  write_side     the transport toward the peer: "open", or "broken"      *)
(*                 when SSL_write can no longer deliver                    *)
(*  SSL_write_ret  what SSL_write returned inside ssl_manager_->write      *)
(*                 (which drops it) since the last read returned; 0 when   *)
(*                 nothing was written since                               *)
(*  history        history: the commands completed before the one in hand, *)
(*                 each with what was written for it                       *)
(*  client         the ExasolClient of main: connected_, the state of the  *)
(*                 TLS session (ssl_) and of the socket (socket_)          *)
(*  call           one call of check_difficulty: hash, difficulty, whether *)
(*                 it has returned, and its result                         *)
(*  conn           connect and the calls made on the client: where connect *)
(*                 is (at), attempt, the configured ports and the port     *)
(*                 tried, the member socket_, the descriptors the process  *)
(*                 has open (fds), the descriptors socket_manager_->connect*)
(*                 returned in this run, the one returned in the current   *)
(*                 attempt (got, kInvalidSocket if none) and the number of *)
(*                 times it was closed, the descriptors passed to          *)
(*                 socket_manager_->close, the ports tried, the number of  *)
(*                 ssl_manager_->shutdown calls, the calls made on the     *)
(*                 client after connect, what the last call threw, and     *)
(*                 whether the client has been destroyed                   *)
(***************************************************************************)
VARIABLES hw, pc, authdata, authenticated, written, nreads, cmd, pre,
          difficulty, found, found_suffix, result_mutex, base_ctx,
          spawned, wpc, counter, batch, probed, writers,
          buffer, bytes_received, write_side, SSL_write_ret, history,
          client, call, conn

sessionVars == <<authdata, authenticated>>
solverVars  == <<difficulty, found, found_suffix, result_mutex, base_ctx,
                 spawned, wpc, counter, batch, probed, writers>>
transportVars == <<buffer, bytes_received, write_side, SSL_write_ret>>
\* what lies outside communicate: the ExasolClient object with the resources
\* connect acquired (connected_, the TLS session, socket_), and a call of
\* check_difficulty taken on its own (its arguments and, once it has
\* returned, its result)
outerVars == <<client, call, conn>>
vars == <<hw, pc, authdata, authenticated, written, nreads, cmd, pre,
          difficulty, found, found_suffix, result_mutex, base_ctx,
          spawned, wpc, counter, batch, probed, writers,
          buffer, bytes_received, write_side, SSL_write_ret, history,
          client, call, conn>>

\* std::max(1u, std::thread::hardware_concurrency())
num_threads == IF hw > 1 THEN hw ELSE 1

TIDs == 0..((IF MaxThreads > 1 THEN MaxThreads ELSE 1) - 1)

Workers == 0..(num_threads - 1)

\* the locals of a POW block before its threads are made; the per-worker
\* entries are what a finished block leaves behind as well
IdleSolver(d) ==
  [difficulty   |-> d,
   found        |-> FALSE,
   found_suffix |-> "",
   result_mutex |-> "unlocked",
   base_ctx     |-> SHA1_Init,
   spawned      |-> 0,
   wpc          |-> [t \in TIDs |-> "idle"],
   counter      |-> [t \in TIDs |-> 0],
   batch        |-> [t \in TIDs |-> 0],
   probed       |-> [t \in TIDs |-> {}],
   writers      |-> {}]

\* SHA1Precomputed::init(authdata)
SHA1Precomputed_init(auth) == SHA1_Update(SHA1_Init, Bytes(auth))

\* the locals of the POW (POW2) block entered with args, after std::stoi
SolverStart(args) ==
  [IdleSolver(stoi(args[3]).value) EXCEPT
     !.base_ctx = IF args[1] = "POW2" THEN SHA1Precomputed_init(args[2])
                  ELSE SHA1_Init]

SolverIs(s) ==
  /\ difficulty = s.difficulty
  /\ found = s.found
  /\ found_suffix = s.found_suffix
  /\ result_mutex = s.result_mutex
  /\ base_ctx = s.base_ctx
  /\ spawned = s.spawned
  /\ wpc = s.wpc
  /\ counter = s.counter
  /\ batch = s.batch
  /\ probed = s.probed
  /\ writers = s.writers

\* the client as connect leaves it: connected_ set, the TLS session
\* established on the connected socket
Connected == [connected_ |-> TRUE, ssl_ |-> "established", socket_ |-> "open"]

\* kInvalidSocket of the POSIX build, and the attempts connect makes
kInvalidSocket == -1

max_attempts == 10

\* the descriptors a process starts with: stdin, stdout, stderr
StdDescriptors == {0, 1, 2}

\* ::socket returns the lowest descriptor the process has not open
LowestFree(fds) == CHOOSE d \in 0..(Cardinality(fds)) :
                     d \notin fds /\ \A e \in 0..(d - 1) : e \in fds

\* connect as it has returned at its first attempt, on the first port
Established ==
  [at |-> "connected", attempt |-> 1, ports |-> <<8083>>, port |-> 8083,
   socket_ |-> LowestFree(StdDescriptors),
   fds |-> StdDescriptors \cup {LowestFree(StdDescriptors)},
   returned |-> {LowestFree(StdDescriptors)},
   got |-> LowestFree(StdDescriptors), got_closes |-> 0,
   closes |-> <<>>, shutdowns |-> 0, calls |-> <<>>, thrown |-> "",
   destroyed |-> FALSE, tried |-> <<8083>>]

\* no call of check_difficulty is under examination
NoCall == [hash |-> <<>>, difficulty |-> 0, returned |-> FALSE, result |-> FALSE]

Init ==
  /\ hw \in 0..MaxThreads
  /\ pc = "read"
  /\ authdata = ""
  /\ authenticated = FALSE
  /\ written = <<>>
  /\ nreads = 0
  /\ cmd = <<>>
  /\ pre = [authdata |-> "", authenticated |-> FALSE]
  /\ SolverIs(IdleSolver(0))
  /\ buffer = ""
  /\ bytes_received = 0
  /\ write_side = "open"
  /\ SSL_write_ret = 0
  /\ history = <<>>
  /\ client = Connected
  /\ call = NoCall
  /\ conn = Established

SetSolver(s) ==
  /\ difficulty' = s.difficulty
  /\ found' = s.found
  /\ found_suffix' = s.found_suffix
  /\ result_mutex' = s.result_mutex
  /\ base_ctx' = s.base_ctx
  /\ spawned' = s.spawned
  /\ wpc' = s.wpc
  /\ counter' = s.counter
  /\ batch' = s.batch
  /\ probed' = s.probed
  /\ writers' = s.writers

(***************************************************************************)
(* What the peer sends: the chunks one read can return.                    *)
(***************************************************************************)
IdentityVerbs ==
  {"NAME", "MAILNUM", "MAIL1", "SKYPE", "BIRTHDATE", "COUNTRY", "ADDRNUM",
   "ADDRLINE1", "ADDRLINE2"}

Chunks ==
  {"HELO\n", "END\n", "ERROR bad thing\n", " \t\r\n", "FOO bar\n",
   "POW\n", "POW b\n", "POW b 0\n", "POW Q 1\n", "POW b -1\n", "POW b x\n",
   "POW2 b 0\n"}
  \cup {v \o " Q\n" : v \in IdentityVerbs}
  \cup {v \o "\n" : v \in IdentityVerbs}

\* the POW commands a solve is examined for on its own
PowChunks ==
  {"POW b 0\n", "POW b 1\n", "POW Q 1\n", "POW aQ 2\n", "POW a 1\n",
   "POW b -1\n"}

\* the chunks of the sessions followed with their history; one of them
\* carries two command lines
SessionChunks ==
  {"POW b 0\n", "POW Q 1\n", "NAME c\n", "COUNTRY c\n", "HELO\nEND\n"}

\* the POW commands a solve is followed to its end for
FairPowChunks == {"POW Q 1\n", "POW aQ 2\n", "POW b 0\n"}

(***************************************************************************)
(* The transport.                                                          *)
(***************************************************************************)
\* SSL_write(ssl_, data.c_str(), data.length()) inside SSLManager::Impl::write:
\* the number of bytes written, or -1 when the record cannot be delivered
SSL_write(data) == IF write_side = "open" THEN Len(data) ELSE -1

\* the connection stops taking what the client writes (the peer has reset
\* it, or the TLS layer has failed); reads are not affected by this model
WriteSideBreaks ==
  /\ write_side = "open"
  /\ write_side' = "broken"
  /\ UNCHANGED <<hw, outerVars, pc, sessionVars, written, nreads, cmd, pre, solverVars,
                 buffer, bytes_received, SSL_write_ret, history>>

(***************************************************************************)
(* The protocol thread.                                                    *)
(***************************************************************************)
\* ReadClosed with continue in the place of break
ReadClosed_Continue ==
  /\ pc = "read"
  /\ bytes_received' \in {0, -1}
  /\ pc' = "read"
  /\ nreads' = nreads + 1
  /\ written' = <<>>
  /\ cmd' = <<>>
  /\ pre' = [authdata |-> authdata, authenticated |-> authenticated]
  /\ SSL_write_ret' = 0
  /\ UNCHANGED <<hw, outerVars, sessionVars, solverVars, buffer, write_side>>

\* ssl_manager_->read returned bytes_received <= 0: break, communicate returns
ReadClosed ==
  /\ pc = "read"
  /\ bytes_received' \in {0, -1}
  /\ pc' = "returned"
  /\ nreads' = nreads + 1
  /\ written' = <<>>
  /\ cmd' = <<>>
  /\ pre' = [authdata |-> authdata, authenticated |-> authenticated]
  /\ SSL_write_ret' = 0
  /\ UNCHANGED <<hw, outerVars, sessionVars, solverVars, buffer, write_side>>

\* Receive with the break of the ERROR branch left out
Receive_ErrorContinues(chunk) ==
  /\ pc = "read"
  /\ buffer' = chunk
  /\ bytes_received' = Len(chunk)
  /\ nreads' = nreads + 1
  /\ pre' = [authdata |-> authdata, authenticated |-> authenticated]
  /\ UNCHANGED <<hw, outerVars, write_side>>
  /\ LET data == Trim(chunk)
         args == Split(data)
     IN  /\ cmd' = args
         /\ IF args = <<>>
              THEN \* "Empty command received": continue
                   /\ written' = <<>>
                   /\ SSL_write_ret' = 0
                   /\ UNCHANGED <<pc, sessionVars, solverVars>>
            ELSE IF args[1] = "ERROR"
              THEN \* the response is empty and nothing is written
                   /\ written' = <<>>
                   /\ SSL_write_ret' = 0
                   /\ UNCHANGED <<pc, sessionVars, solverVars>>
            ELSE IF args[1] \in {"POW", "POW2"} /\ Len(args) >= 3
              THEN /\ authdata' = args[2]
                   /\ written' = <<>>
                   /\ SSL_write_ret' = 0
                   /\ UNCHANGED authenticated
                   /\ IF stoi(args[3]).throws
                        THEN \* caught by the handler around the loop
                             /\ pc' = "returned"
                             /\ UNCHANGED solverVars
                        ELSE /\ pc' = "pow_spawn"
                             /\ SetSolver(SolverStart(args))
            ELSE LET response == Response(args, authdata, authenticated)
                 IN  /\ written' = <<response>>
                     /\ SSL_write_ret' = SSL_write(response)
                     /\ UNCHANGED <<pc, sessionVars, solverVars>>

\* Receive with authdata = args[1] ahead of the test of args.size()
Receive_AuthdataBeforeCheck(chunk) ==
  /\ pc = "read"
  /\ buffer' = chunk
  /\ bytes_received' = Len(chunk)
  /\ nreads' = nreads + 1
  /\ pre' = [authdata |-> authdata, authenticated |-> authenticated]
  /\ UNCHANGED <<hw, outerVars, write_side>>
  /\ LET data == Trim(chunk)
         args == Split(data)
     IN  /\ cmd' = args
         /\ IF args = <<>>
              THEN \* "Empty command received": continue
                   /\ written' = <<>>
                   /\ SSL_write_ret' = 0
                   /\ UNCHANGED <<pc, sessionVars, solverVars>>
            ELSE IF args[1] = "ERROR"
              THEN \* break
                   /\ pc' = "returned"
                   /\ written' = <<>>
                   /\ SSL_write_ret' = 0
                   /\ UNCHANGED <<sessionVars, solverVars>>
            ELSE IF args[1] \in {"POW", "POW2"} /\ Len(args) >= 3
              THEN /\ authdata' = args[2]
                   /\ written' = <<>>
                   /\ SSL_write_ret' = 0
                   /\ UNCHANGED authenticated
                   /\ IF stoi(args[3]).throws
                        THEN \* caught by the handler around the loop
                             /\ pc' = "returned"
                             /\ UNCHANGED solverVars
                        ELSE /\ pc' = "pow_spawn"
                             /\ SetSolver(SolverStart(args))
            ELSE LET response == Response(args, authdata, authenticated)
                 IN  /\ written' = <<response>>
                     /\ SSL_write_ret' = SSL_write(response)
                     /\ authdata' = IF args[1] \in {"POW", "POW2"} /\ Len(args) >= 2
                                     THEN args[2] ELSE authdata
                     /\ UNCHANGED <<pc, authenticated, solverVars>>

\* ssl_manager_->read returned chunk: one pass of the while body up to the
\* next read, or up to the thread loop of a POW / POW2 with two arguments
Receive(chunk) ==
  /\ pc = "read"
  /\ buffer' = chunk
  /\ bytes_received' = Len(chunk)
  /\ nreads' = nreads + 1
  /\ pre' = [authdata |-> authdata, authenticated |-> authenticated]
  /\ UNCHANGED <<hw, outerVars, write_side>>
  /\ LET data == Trim(chunk)
         args == Split(data)
     IN  /\ cmd' = args
         /\ IF args = <<>>
              THEN \* "Empty command received": continue
                   /\ written' = <<>>
                   /\ SSL_write_ret' = 0
                   /\ UNCHANGED <<pc, sessionVars, solverVars>>
            ELSE IF args[1] = "ERROR"
              THEN \* break
                   /\ pc' = "returned"
                   /\ written' = <<>>
                   /\ SSL_write_ret' = 0
                   /\ UNCHANGED <<sessionVars, solverVars>>
            ELSE IF args[1] \in {"POW", "POW2"} /\ Len(args) >= 3
              THEN /\ authdata' = args[2]
                   /\ written' = <<>>
                   /\ SSL_write_ret' = 0
                   /\ UNCHANGED authenticated
                   /\ IF stoi(args[3]).throws
                        THEN \* caught by the handler around the loop
                             /\ pc' = "returned"
                             /\ UNCHANGED solverVars
                        ELSE /\ pc' = "pow_spawn"
                             /\ SetSolver(SolverStart(args))
            ELSE LET response == Response(args, authdata, authenticated)
                 IN  /\ written' = <<response>>
                     /\ SSL_write_ret' = SSL_write(response)
                     /\ UNCHANGED <<pc, sessionVars, solverVars>>

\* Spawn with the counter of thread i starting at i + 1
Spawn_OffByOne ==
  /\ pc = "pow_spawn"
  /\ spawned < num_threads
  /\ wpc' = [wpc EXCEPT ![spawned] = "probe"]
  /\ counter' = [counter EXCEPT ![spawned] = (spawned + 1) % UINT64_MOD]
  /\ batch' = [batch EXCEPT ![spawned] = 0]
  /\ spawned' = spawned + 1
  /\ pc' = IF spawned + 1 = num_threads THEN "pow_join" ELSE "pow_spawn"
  /\ UNCHANGED <<hw, outerVars, sessionVars, written, nreads, cmd, pre,
                 transportVars, history, difficulty, found,
                 found_suffix, result_mutex, base_ctx, probed, writers>>

\* threads.emplace_back(pow_worker, i)
Spawn ==
  /\ pc = "pow_spawn"
  /\ spawned < num_threads
  /\ wpc' = [wpc EXCEPT ![spawned] = "probe"]
  /\ counter' = [counter EXCEPT ![spawned] = spawned]
  /\ batch' = [batch EXCEPT ![spawned] = 0]
  /\ spawned' = spawned + 1
  /\ pc' = IF spawned + 1 = num_threads THEN "pow_join" ELSE "pow_spawn"
  /\ UNCHANGED <<hw, outerVars, sessionVars, written, nreads, cmd, pre,
                 transportVars, history, difficulty, found,
                 found_suffix, result_mutex, base_ctx, probed, writers>>

\* PowReply without the join loop: the reply is made from found_suffix as
\* soon as the threads are started
PowReply_NoJoin ==
  /\ pc = "pow_join"
  /\ authenticated' = TRUE
  /\ written' = <<found_suffix \o "\n">>
  /\ SSL_write_ret' = SSL_write(found_suffix \o "\n")
  /\ pc' = "read"
  /\ SetSolver([IdleSolver(difficulty) EXCEPT !.found = found,
                  !.found_suffix = found_suffix, !.writers = writers,
                  !.probed = probed])
  /\ UNCHANGED <<hw, outerVars, authdata, nreads, cmd, pre, buffer, bytes_received,
                 write_side, history>>

\* PowReply with the flag flipped rather than set
PowReply_Toggles ==
  /\ pc = "pow_join"
  /\ \A t \in Workers : wpc[t] = "done"
  /\ authenticated' = ~authenticated
  /\ written' = <<found_suffix \o "\n">>
  /\ SSL_write_ret' = SSL_write(found_suffix \o "\n")
  /\ pc' = "read"
  /\ SetSolver([IdleSolver(difficulty) EXCEPT !.found = found,
                  !.found_suffix = found_suffix, !.writers = writers,
                  !.probed = probed])
  /\ UNCHANGED <<hw, outerVars, authdata, nreads, cmd, pre, buffer, bytes_received,
                 write_side, history>>

\* the join loop: t.join() returns for every thread of the vector in turn,
\* which it can once each has returned; then response = found_suffix + "\n";
\* authenticated = true; the block's locals end; ssl_manager_->write(response)
\* and back to read
PowReply ==
  /\ pc = "pow_join"
  /\ \A t \in Workers : wpc[t] = "done"
  /\ authenticated' = TRUE
  /\ written' = <<found_suffix \o "\n">>
  /\ SSL_write_ret' = SSL_write(found_suffix \o "\n")
  /\ pc' = "read"
  /\ SetSolver([IdleSolver(difficulty) EXCEPT !.found = found,
                  !.found_suffix = found_suffix, !.writers = writers,
                  !.probed = probed])
  /\ UNCHANGED <<hw, outerVars, authdata, nreads, cmd, pre, buffer, bytes_received,
                 write_side, history>>

(***************************************************************************)
(* The workers (the lambda pow_worker).                                    *)
(***************************************************************************)
\* SHA1Precomputed::hash_counter: a copy of base_ctx absorbs the 8 bytes of
\* the counter as they lie in memory (little endian)
RECURSIVE ShiftRightBytes(_, _)
ShiftRightBytes(c, k) == IF k = 0 THEN c ELSE ShiftRightBytes(c \div 256, k - 1)

CounterBytes(c) == [i \in 1..8 |-> ShiftRightBytes(c, i - 1) % 256]

hash_counter(ctx, c) == SHA1_Final(SHA1_Update(ctx, CounterBytes(c)))

\* the digest a worker computes for its counter
ProbeHash(t) ==
  IF cmd[1] = "POW2" THEN hash_counter(base_ctx, counter[t])
  ELSE sha1_raw(authdata \o to_string(counter[t]))

\* the indices check_difficulty can read for a difficulty, and those of them
\* outside the 20 bytes of hash
ReadIdx(d) ==
  (0..(full_bytes_of(d) - 1)) \cup (IF d % 2 = 1 THEN {full_bytes_of(d)} ELSE {})

OutOfBounds(d) == ReadIdx(d) \ (0..(SHA_DIGEST_LENGTH - 1))

\* what a read outside the buffer can find
GarbageBytes == {0, 255}

\* the memory around hash as check_difficulty sees it
HashMemory(digest, garbage) ==
  [i \in DOMAIN digest \cup DOMAIN garbage |->
     IF i \in DOMAIN digest THEN digest[i] ELSE garbage[i]]

\* counter += stride
NextCounter(t) == (counter[t] + num_threads) % UINT64_MOD

\* WorkerProbe with the flag looked at after two batches of passes
WorkerProbe_TwoBatches(t) ==
  /\ wpc[t] = "probe"
  /\ \E garbage \in [OutOfBounds(difficulty) -> GarbageBytes] :
       LET hash == HashMemory(ProbeHash(t), garbage)
       IN  IF check_difficulty(hash, difficulty)
             THEN /\ wpc' = [wpc EXCEPT ![t] = "lock"]
                  /\ UNCHANGED <<counter, batch>>
             ELSE /\ counter' = [counter EXCEPT ![t] = NextCounter(t)]
                  /\ batch' = [batch EXCEPT ![t] = batch[t] + 1]
                  /\ wpc' = [wpc EXCEPT ![t] =
                               IF batch[t] + 1 < 2 * CHECK_INTERVAL THEN "probe"
                               ELSE "check"]
  /\ probed' = [probed EXCEPT ![t] = probed[t] \cup {counter[t]}]
  /\ UNCHANGED <<hw, outerVars, pc, sessionVars, written, nreads, cmd, pre,
                 transportVars, history, difficulty,
                 found, found_suffix, result_mutex, base_ctx, spawned,
                 writers>>

\* WorkerProbe with hash_counter absorbing the counter into base_ctx itself
WorkerProbe_InPlace(t) ==
  /\ wpc[t] = "probe"
  /\ \E garbage \in [OutOfBounds(difficulty) -> GarbageBytes] :
       LET hash == HashMemory(ProbeHash(t), garbage)
       IN  IF check_difficulty(hash, difficulty)
             THEN /\ wpc' = [wpc EXCEPT ![t] = "lock"]
                  /\ UNCHANGED <<counter, batch>>
             ELSE /\ counter' = [counter EXCEPT ![t] = NextCounter(t)]
                  /\ batch' = [batch EXCEPT ![t] = batch[t] + 1]
                  /\ wpc' = [wpc EXCEPT ![t] =
                               IF batch[t] + 1 < CHECK_INTERVAL THEN "probe"
                               ELSE "check"]
  /\ probed' = [probed EXCEPT ![t] = probed[t] \cup {counter[t]}]
  /\ base_ctx' = IF cmd[1] = "POW2"
                 THEN SHA1_Update(base_ctx, CounterBytes(counter[t]))
                 ELSE base_ctx
  /\ UNCHANGED <<hw, outerVars, pc, sessionVars, written, nreads, cmd, pre,
                 transportVars, history, difficulty,
                 found, found_suffix, result_mutex, spawned,
                 writers>>

\* one pass of the for body: hash, test, then either leave for the lock or
\* step the counter; after CHECK_INTERVAL passes the for loop ends
WorkerProbe(t) ==
  /\ wpc[t] = "probe"
  /\ \E garbage \in [OutOfBounds(difficulty) -> GarbageBytes] :
       LET hash == HashMemory(ProbeHash(t), garbage)
       IN  IF check_difficulty(hash, difficulty)
             THEN /\ wpc' = [wpc EXCEPT ![t] = "lock"]
                  /\ UNCHANGED <<counter, batch>>
             ELSE /\ counter' = [counter EXCEPT ![t] = NextCounter(t)]
                  /\ batch' = [batch EXCEPT ![t] = batch[t] + 1]
                  /\ wpc' = [wpc EXCEPT ![t] =
                               IF batch[t] + 1 < CHECK_INTERVAL THEN "probe"
                               ELSE "check"]
  /\ probed' = [probed EXCEPT ![t] = probed[t] \cup {counter[t]}]
  /\ UNCHANGED <<hw, outerVars, pc, sessionVars, written, nreads, cmd, pre,
                 transportVars, history, difficulty,
                 found, found_suffix, result_mutex, base_ctx, spawned,
                 writers>>

\* WorkerLock without the test of found under the lock
WorkerLock_NoRecheck(t) ==
  /\ wpc[t] = "lock"
  /\ result_mutex = "unlocked"
  /\ found' = TRUE
  /\ result_mutex' = "locked"
  /\ wpc' = [wpc EXCEPT ![t] = "publish"]
  /\ UNCHANGED <<hw, outerVars, pc, sessionVars, written, nreads, cmd, pre,
                 transportVars, history, difficulty,
                 found_suffix, base_ctx, spawned, counter, batch,
                 probed, writers>>

\* std::lock_guard lock(result_mutex); if (!found) found = true; else return
WorkerLock(t) ==
  /\ wpc[t] = "lock"
  /\ result_mutex = "unlocked"
  /\ IF ~found
       THEN /\ found' = TRUE
            /\ result_mutex' = "locked"
            /\ wpc' = [wpc EXCEPT ![t] = "publish"]
       ELSE /\ wpc' = [wpc EXCEPT ![t] = "done"]
            /\ UNCHANGED <<found, result_mutex>>
  /\ UNCHANGED <<hw, outerVars, pc, sessionVars, written, nreads, cmd, pre,
                 transportVars, history, difficulty,
                 found_suffix, base_ctx, spawned, counter, batch,
                 probed, writers>>

\* WorkerPublish storing the counter after counter += stride
WorkerPublish_NextCounter(t) ==
  /\ wpc[t] = "publish"
  /\ found_suffix' = to_string(NextCounter(t))
  /\ writers' = writers \cup {t}
  /\ result_mutex' = "unlocked"
  /\ wpc' = [wpc EXCEPT ![t] = "done"]
  /\ UNCHANGED <<hw, outerVars, pc, sessionVars, written, nreads, cmd, pre,
                 transportVars, history, difficulty,
                 found, base_ctx, spawned, counter, batch, probed>>

\* found_suffix = std::to_string(counter); return (the lock is released)
WorkerPublish(t) ==
  /\ wpc[t] = "publish"
  /\ found_suffix' = to_string(counter[t])
  /\ writers' = writers \cup {t}
  /\ result_mutex' = "unlocked"
  /\ wpc' = [wpc EXCEPT ![t] = "done"]
  /\ UNCHANGED <<hw, outerVars, pc, sessionVars, written, nreads, cmd, pre,
                 transportVars, history, difficulty,
                 found, base_ctx, spawned, counter, batch, probed>>

\* WorkerCheck with the test inverted: returns while found is false
WorkerCheck_Inverted(t) ==
  /\ wpc[t] = "check"
  /\ IF ~found
       THEN wpc' = [wpc EXCEPT ![t] = "done"] /\ UNCHANGED batch
       ELSE wpc' = [wpc EXCEPT ![t] = "probe"] /\ batch' = [batch EXCEPT ![t] = 0]
  /\ UNCHANGED <<hw, outerVars, pc, sessionVars, written, nreads, cmd, pre,
                 transportVars, history, difficulty,
                 found, found_suffix, result_mutex, base_ctx, spawned,
                 counter, probed, writers>>

\* WorkerCheck without the load of found: always the next batch
WorkerCheck_NeverReturns(t) ==
  /\ wpc[t] = "check"
  /\ wpc' = [wpc EXCEPT ![t] = "probe"]
  /\ batch' = [batch EXCEPT ![t] = 0]
  /\ UNCHANGED <<hw, outerVars, pc, sessionVars, written, nreads, cmd, pre,
                 transportVars, history, difficulty,
                 found, found_suffix, result_mutex, base_ctx, spawned,
                 counter, probed, writers>>

\* if (found.load(std::memory_order_relaxed)) return; else the next batch
WorkerCheck(t) ==
  /\ wpc[t] = "check"
  /\ IF found
       THEN wpc' = [wpc EXCEPT ![t] = "done"] /\ UNCHANGED batch
       ELSE wpc' = [wpc EXCEPT ![t] = "probe"] /\ batch' = [batch EXCEPT ![t] = 0]
  /\ UNCHANGED <<hw, outerVars, pc, sessionVars, written, nreads, cmd, pre,
                 transportVars, history, difficulty,
                 found, found_suffix, result_mutex, base_ctx, spawned,
                 counter, probed, writers>>

Worker(t) ==
  WorkerProbe(t) \/ WorkerLock(t) \/ WorkerPublish(t) \/ WorkerCheck(t)

(***************************************************************************)
(* Specifications.                                                         *)
(***************************************************************************)
Solve == Spawn \/ PowReply \/ (\E t \in TIDs : Worker(t))

\* the reads of a session of at most MaxReads reads
Read ==
  /\ nreads < MaxReads
  /\ ReadClosed \/ (\E chunk \in Chunks : Receive(chunk))
  /\ UNCHANGED history

Next == Read \/ Solve

\* a session: any MaxReads reads
Spec == Init /\ [][Next]_vars

\* one solve: the state communicate is in when its first read returned a
\* POW command with two arguments, and the steps up to the reply
InitPow ==
  /\ hw \in 0..MaxThreads
  /\ pc = "pow_spawn"
  /\ authenticated = FALSE
  /\ written = <<>>
  /\ nreads = 1
  /\ pre = [authdata |-> "", authenticated |-> FALSE]
  /\ write_side = "open"
  /\ SSL_write_ret = 0
  /\ history = <<>>
  /\ client = Connected
  /\ call = NoCall
  /\ conn = Established
  /\ \E chunk \in PowChunks :
       /\ buffer = chunk
       /\ bytes_received = Len(chunk)
       /\ cmd = Split(Trim(chunk))
       /\ authdata = cmd[2]
       /\ SolverIs(SolverStart(cmd))

SpecPow == InitPow /\ [][Solve]_vars

\* one solve of a POW2 command, from the state the POW2 branch is entered in
Pow2Chunks == {"POW2 b 0\n", "POW2 t 1\n", "POW2 g 1\n"}

InitPow2 ==
  /\ hw \in 0..MaxThreads
  /\ pc = "pow_spawn"
  /\ authenticated = FALSE
  /\ written = <<>>
  /\ nreads = 1
  /\ pre = [authdata |-> "", authenticated |-> FALSE]
  /\ write_side = "open"
  /\ SSL_write_ret = 0
  /\ history = <<>>
  /\ client = Connected
  /\ call = NoCall
  /\ conn = Established
  /\ \E chunk \in Pow2Chunks :
       /\ buffer = chunk
       /\ bytes_received = Len(chunk)
       /\ cmd = Split(Trim(chunk))
       /\ authdata = cmd[2]
       /\ SolverIs(SolverStart(cmd))

SpecPow2 == InitPow2 /\ [][Solve]_vars

\* one solve of a POW whose difficulty std::stoi parses to a negative odd int
\* below -1: difficulty / 2 is negative, the loop of check_difficulty does
\* not run, and difficulty & 1 is 1
NegativePowChunks == {"POW b -3\n", "POW Q -3\n"}

InitPowNegative ==
  /\ hw \in 0..MaxFairThreads
  /\ pc = "pow_spawn"
  /\ authenticated = FALSE
  /\ written = <<>>
  /\ nreads = 1
  /\ pre = [authdata |-> "", authenticated |-> FALSE]
  /\ write_side = "open"
  /\ SSL_write_ret = 0
  /\ history = <<>>
  /\ client = Connected
  /\ call = NoCall
  /\ conn = Established
  /\ \E chunk \in NegativePowChunks :
       /\ buffer = chunk
       /\ bytes_received = Len(chunk)
       /\ cmd = Split(Trim(chunk))
       /\ authdata = cmd[2]
       /\ SolverIs(SolverStart(cmd))

SpecPowNegative == InitPowNegative /\ [][Solve]_vars

\* one solve of a POW that has a satisfying nonce, under a scheduler that
\* keeps running some thread while one can run (it need not be fair to each)
InitPowFair ==
  /\ InitPow
  /\ hw <= MaxFairThreads
  /\ cmd \in {Split(Trim(chunk)) : chunk \in FairPowChunks}

FairSpecPow == InitPowFair /\ [][Solve]_vars /\ WF_vars(Solve)

\* a session of at most MaxSessionReads reads on a transport whose write side
\* can break, with the history of its commands and replies kept
InitSession == Init /\ hw <= MaxSessionThreads

ReadSession ==
  /\ nreads < MaxSessionReads
  /\ ReadClosed \/ (\E chunk \in SessionChunks : Receive(chunk))
  /\ history' = IF nreads = 0 THEN history
                ELSE Append(history,
                            [cmd |-> cmd, pre |-> pre, written |-> written])

NextSession == ReadSession \/ Solve \/ WriteSideBreaks

SpecSession == InitSession /\ [][NextSession]_vars

(***************************************************************************)
(* The workflow of main around communicate: client.connect() has           *)
(* succeeded, client.communicate() runs the session, client.disconnect()   *)
(* follows its return, then main returns.                                  *)
(***************************************************************************)
\* threads.emplace_back(pow_worker, i) fails: the std::thread constructor
\* throws std::system_error when the system cannot start another thread.
\* The exception leaves the POW block for the catch around the loop, and on
\* the way the vector threads is destroyed: with no thread in it communicate
\* returns; a std::thread in it is joinable, and its destructor calls
\* std::terminate, which ends the process where it stands
SpawnFails ==
  /\ pc = "pow_spawn"
  /\ spawned < num_threads
  /\ pc' = IF spawned = 0 THEN "returned" ELSE "terminated"
  /\ UNCHANGED <<hw, outerVars, sessionVars, written, nreads, cmd, pre,
                 transportVars, history, solverVars>>

\* socket_manager_->close(s): ::close on the descriptor
Close(c, s) ==
  [c EXCEPT !.fds = @ \ {s},
            !.closes = Append(@, s),
            !.got_closes = IF s = c.got THEN @ + 1 ELSE @]

\* disconnect_body without the test of connected_
disconnect_body_NoGuard(c) ==
  /\ client' = [connected_ |-> FALSE, ssl_ |-> "shutdown", socket_ |-> "closed"]
  /\ conn' = [Close(c, c.socket_) EXCEPT !.shutdowns = @ + 1]

\* the body of ExasolClient::disconnect on the client after the calls in c
disconnect_body(c) ==
  IF client.connected_
    THEN /\ client' = [connected_ |-> FALSE, ssl_ |-> "shutdown",
                       socket_ |-> "closed"]
         /\ conn' = [Close(c, c.socket_) EXCEPT !.shutdowns = @ + 1]
    ELSE /\ client' = client
         /\ conn' = c

\* client.disconnect() after communicate has returned, then return 0
disconnect ==
  /\ pc = "returned"
  /\ client.connected_
  /\ disconnect_body(conn)
  /\ pc' = "finished"
  /\ UNCHANGED <<hw, call, sessionVars, written, nreads, cmd, pre,
                 transportVars, history, solverVars>>

NextMain == Read \/ Solve \/ SpawnFails \/ disconnect

SpecMain == Init /\ [][NextMain]_vars

(***************************************************************************)
(* ExasolClient::connect, and the calls a caller makes on the client once  *)
(* connect has returned or thrown: disconnect, communicate on a client     *)
(* that is not connected, and the destructor.                              *)
(***************************************************************************)
\* config_.ports: n ports, n = 1..MaxPorts
PortLists == {[i \in 1..n |-> 8082 + i] : n \in 1..MaxPorts}

\* SocketManager::is_valid
is_valid(s) == s # kInvalidSocket

\* a client as its constructor leaves it (socket_(0), connected_(false)),
\* in a process that has its three standard descriptors open
InitClient ==
  /\ hw = 0
  /\ pc = "read"
  /\ authdata = ""
  /\ authenticated = FALSE
  /\ written = <<>>
  /\ nreads = 0
  /\ cmd = <<>>
  /\ pre = [authdata |-> "", authenticated |-> FALSE]
  /\ SolverIs(IdleSolver(0))
  /\ buffer = ""
  /\ bytes_received = 0
  /\ write_side = "open"
  /\ SSL_write_ret = 0
  /\ history = <<>>
  /\ call = NoCall
  /\ client = [connected_ |-> FALSE, ssl_ |-> "none", socket_ |-> "none"]
  /\ \E ports \in PortLists :
       conn = [at |-> "start", attempt |-> 1, ports |-> ports, port |-> 0,
               socket_ |-> 0, fds |-> StdDescriptors, returned |-> {},
               got |-> kInvalidSocket, got_closes |-> 0, closes |-> <<>>,
               shutdowns |-> 0, calls |-> <<>>, thrown |-> "",
               destroyed |-> FALSE, tried |-> <<>>]

\* what the steps of connect and the calls on the client leave alone
clientFrame ==
  UNCHANGED <<hw, pc, call, sessionVars, written, nreads, cmd, pre,
              transportVars, history, solverVars>>

\* the part of connect before the loop: config_loader_->load(), the ports,
\* ssl_manager_->initialize; any of them can throw
ConnectStart ==
  /\ conn.at = "start"
  /\ \/ conn' = [conn EXCEPT !.at = "socket"]
     \/ conn' = [conn EXCEPT !.at = "outer_catch"]
  /\ client' = client
  /\ clientFrame

\* SocketConnect with the port taken at attempt % size
SocketConnect_PortOffByOne ==
  /\ conn.at = "socket"
  /\ LET port_to_try == conn.ports[(conn.attempt % Len(conn.ports)) + 1]
         sock == LowestFree(conn.fds)
         c == [conn EXCEPT !.port = port_to_try,
                           !.tried = Append(@, port_to_try)]
     IN  \/ conn' = [c EXCEPT !.socket_ = sock,
                              !.fds = @ \cup {sock},
                              !.returned = @ \cup {sock},
                              !.got = sock,
                              !.got_closes = 0,
                              !.at = "tls"]
         \/ conn' = [c EXCEPT !.got = kInvalidSocket,
                              !.got_closes = 0,
                              !.at = "inner_catch"]
  /\ client' = client
  /\ clientFrame

\* socket_ = socket_manager_->connect(config_.address, port_to_try): it
\* returns a connected descriptor, or throws having closed what it opened
SocketConnect ==
  /\ conn.at = "socket"
  /\ LET port_to_try == conn.ports[((conn.attempt - 1) % Len(conn.ports)) + 1]
         sock == LowestFree(conn.fds)
         c == [conn EXCEPT !.port = port_to_try,
                           !.tried = Append(@, port_to_try)]
     IN  \/ conn' = [c EXCEPT !.socket_ = sock,
                              !.fds = @ \cup {sock},
                              !.returned = @ \cup {sock},
                              !.got = sock,
                              !.got_closes = 0,
                              !.at = "tls"]
         \/ conn' = [c EXCEPT !.got = kInvalidSocket,
                              !.got_closes = 0,
                              !.at = "inner_catch"]
  /\ client' = client
  /\ clientFrame

\* ssl_manager_->attach_socket(socket_); ssl_manager_->handshake();
\* connected_ = true; return -- or one of the two throws
Handshake ==
  /\ conn.at = "tls"
  /\ \/ /\ conn' = [conn EXCEPT !.at = "connected"]
        /\ client' = [connected_ |-> TRUE, ssl_ |-> "established",
                      socket_ |-> "open"]
     \/ /\ conn' = [conn EXCEPT !.at = "inner_catch"]
        /\ client' = client
  /\ clientFrame

\* the catch of the attempt: close socket_ if is_valid, socket_ = 0, then
\* rethrow after the last attempt, else the next attempt
InnerCatch ==
  /\ conn.at = "inner_catch"
  /\ LET c == IF is_valid(conn.socket_) THEN Close(conn, conn.socket_) ELSE conn
     IN  conn' = [c EXCEPT !.socket_ = 0,
                           !.at = IF conn.attempt = max_attempts
                                    THEN "outer_catch" ELSE "socket",
                           !.attempt = IF conn.attempt = max_attempts
                                         THEN @ ELSE @ + 1]
  /\ client' = client
  /\ clientFrame

\* the catch around connect: close socket_ if is_valid, then rethrow
OuterCatch ==
  /\ conn.at = "outer_catch"
  /\ LET c == IF is_valid(conn.socket_) THEN Close(conn, conn.socket_) ELSE conn
     IN  conn' = [c EXCEPT !.at = "failed"]
  /\ client' = client
  /\ clientFrame

connect == ConnectStart \/ SocketConnect \/ Handshake \/ InnerCatch \/ OuterCatch

\* connect has returned or thrown, and the caller can make one more call
CanCall ==
  /\ conn.at \in {"connected", "failed"}
  /\ ~conn.destroyed
  /\ Len(conn.calls) < MaxCalls

\* the caller calls disconnect()
CallDisconnect ==
  /\ CanCall
  /\ disconnect_body([conn EXCEPT !.calls = Append(@, "disconnect"),
                                  !.thrown = ""])
  /\ clientFrame

\* CallCommunicate without the test of connected_: communicate enters its
\* loop and reads from the transport, which fails
CallCommunicate_NoCheck ==
  /\ CanCall
  /\ ~client.connected_
  /\ conn' = [conn EXCEPT !.calls = Append(@, "communicate"), !.thrown = ""]
  /\ client' = client
  /\ nreads' = nreads + 1
  /\ bytes_received' = -1
  /\ pc' = "returned"
  /\ UNCHANGED <<hw, call, sessionVars, written, cmd, pre, buffer,
                 write_side, SSL_write_ret, history, solverVars>>

\* the caller calls communicate() on a client that is not connected:
\* if (!connected_) throw std::runtime_error("Not connected to server")
CallCommunicate ==
  /\ CanCall
  /\ ~client.connected_
  /\ conn' = [conn EXCEPT !.calls = Append(@, "communicate"),
                          !.thrown = "Not connected to server"]
  /\ client' = client
  /\ clientFrame

\* ~ExasolClient: if (connected_) disconnect()
Destroy ==
  /\ conn.at \in {"connected", "failed"}
  /\ ~conn.destroyed
  /\ disconnect_body([conn EXCEPT !.destroyed = TRUE])
  /\ clientFrame

NextClient == connect \/ CallDisconnect \/ CallCommunicate \/ Destroy

SpecClient == InitClient /\ [][NextClient]_vars

(***************************************************************************)
(* check_difficulty taken on its own: one call on a 20-byte buffer and a    *)
(* difficulty of the range 0..40, for which every read stays in the buffer. *)
(***************************************************************************)
\* the bytes the buffers under examination are made of: zero, and bytes with
\* a zero or a non-zero half on either side
DigestBytes == {0, 1, 15, 16, 240, 255}

\* buffers of SHA_DIGEST_LENGTH bytes: k zero bytes, then a byte v, then w's
Digests ==
  {[i \in 0..(SHA_DIGEST_LENGTH - 1) |->
      IF i < k THEN 0 ELSE IF i = k THEN v ELSE w] :
     k \in 0..SHA_DIGEST_LENGTH, v \in DigestBytes, w \in {0, 255}}

Difficulties == 0..(2 * SHA_DIGEST_LENGTH)

InitDifficulty ==
  /\ hw = 0
  /\ pc = "read"
  /\ authdata = ""
  /\ authenticated = FALSE
  /\ written = <<>>
  /\ nreads = 0
  /\ cmd = <<>>
  /\ pre = [authdata |-> "", authenticated |-> FALSE]
  /\ SolverIs(IdleSolver(0))
  /\ buffer = ""
  /\ bytes_received = 0
  /\ write_side = "open"
  /\ SSL_write_ret = 0
  /\ history = <<>>
  /\ client = Connected
  /\ conn = Established
  /\ call \in [hash : Digests, difficulty : Difficulties,
               returned : {FALSE}, result : {FALSE}]

\* the call returns what check_difficulty computes from its arguments
CheckDifficultyCall ==
  /\ ~call.returned
  /\ call' = [call EXCEPT !.returned = TRUE,
                          !.result = check_difficulty(call.hash, call.difficulty)]
  /\ UNCHANGED <<hw, pc, client, conn, sessionVars, written, nreads, cmd, pre,
                 transportVars, history, solverVars>>

SpecDifficulty == InitDifficulty /\ [][CheckDifficultyCall]_vars

(***************************************************************************)
(* Vocabulary of the properties.                                           *)
(***************************************************************************)
\* the decimal text of n, most significant digit first
RECURSIVE DecimalDigits(_, _)
DecimalDigits(n, k) ==
  IF k = 0 THEN ""
  ELSE Char("0123456789", ((n \div (10 ^ (k - 1))) % 10) + 1)
         \o DecimalDigits(n, k - 1)

DecimalText(n) ==
  DecimalDigits(n, CHOOSE k \in 1..9 : (k = 1 \/ n >= 10 ^ (k - 1)) /\ n < 10 ^ k)

Nonces == 0..(UINT64_MOD - 1)

\* the k-th hex nibble of a digest, k = 0 for the high nibble of byte 0
Nibble(digest, k) ==
  IF k % 2 = 0 THEN digest[k \div 2] \div 16 ELSE digest[k \div 2] % 16

\* the difficulty predicate: the first D hex nibbles of the digest are zero
leading_zero_nibbles(digest, D) == \A k \in 0..(D - 1) : Nibble(digest, k) = 0

\* nonce n answers the POW for authdata a at difficulty D
Satisfies(a, n, D) == leading_zero_nibbles(SHA1(Bytes(a \o DecimalText(n))), D)

\* the command in hand is a POW whose solver was started
PowRan == Len(cmd) >= 3 /\ cmd[1] = "POW" /\ ~stoi(cmd[3]).throws

\* the solver of the command in hand has been joined and its reply written
PowAnswered == PowRan /\ pc = "read"

\* every thread of the solve has returned and the join loop can finish
AllJoined == pc = "pow_join" /\ \A t \in Workers : wpc[t] = "done"

(***************************************************************************)
(* C1.  For a POW with a difficulty in 0..40, the line sent back once the  *)
(* workers are joined is the decimal text of a nonce n of the counter      *)
(* range, and sha1(authdata || decimal(n)) has its first D hex nibbles     *)
(* zero, whatever the interleaving of the workers.                         *)
(***************************************************************************)
C1_NonceSatisfiesDifficulty ==
  (PowAnswered /\ difficulty \in 0..40) =>
    \E n \in Nonces :
      /\ written = <<DecimalText(n) \o "\n">>
      /\ Satisfies(authdata, n, difficulty)

C1_Witness ==
  /\ PowAnswered
  /\ num_threads = 3
  /\ cmd = <<"POW", "Q", "1">>
  /\ written = <<"6\n">>

(***************************************************************************)
(* C2.  In one solve at most one worker ever assigns the result slot       *)
(* found_suffix, the flag found goes from false to true and never back,    *)
(* and once the slot holds a nonce no later step changes it: a worker that *)
(* finds a satisfying nonce after the flag is set leaves it untouched.     *)
(***************************************************************************)
C2_SingleWriterSlot ==
  [][/\ found => found'
     /\ Cardinality(writers') <= 1
     /\ found_suffix # "" => found_suffix' = found_suffix]_vars

\* a worker found a satisfying nonce, came to the lock after the flag was
\* set and returned without writing
C2_Witness ==
  /\ found_suffix # ""
  /\ \E t \in Workers :
       /\ wpc[t] = "done"
       /\ t \notin writers
       /\ difficulty \in 0..40
       /\ Satisfies(authdata, counter[t], difficulty)

(***************************************************************************)
(* C3.  When every worker of a solve has been joined, found is true and    *)
(* the result slot holds one non-empty nonce, written by exactly one       *)
(* worker; the reply is that nonce and a line feed.  The join never        *)
(* completes with an empty slot.                                           *)
(***************************************************************************)
C3_JoinedSlotHoldsNonce ==
  /\ AllJoined => (found /\ found_suffix # "" /\ Cardinality(writers) = 1)
  /\ PowAnswered => (found_suffix # "" /\ written = <<found_suffix \o "\n">>)

C3_Witness ==
  /\ AllJoined
  /\ num_threads >= 2
  /\ found_suffix = "6"

(***************************************************************************)
(* C4.  With the threads of the solve scheduled weakly fairly, once a      *)
(* worker has set the flag (it is publishing a satisfying nonce) all       *)
(* workers return, the join completes and the reply is written.            *)
(***************************************************************************)
C4_SolveTerminatesOnSuccess == found ~> (pc = "read")

\* the flag is set while another worker is still in its batch
C4_Witness ==
  /\ found
  /\ \E t \in Workers : wpc[t] = "probe" /\ batch[t] > 0

(***************************************************************************)
(* C5.  While a POW is being solved nothing is written to the transport:   *)
(* the only step that writes is the one of the protocol thread that        *)
(* follows the join of every worker, it writes exactly one line, and no    *)
(* step of a worker changes what was written.                              *)
(***************************************************************************)
C5_ReplyOnlyAfterJoin ==
  [][(pc \in {"pow_spawn", "pow_join"} /\ PowRan) =>
       /\ written = <<>>
       /\ written' # written =>
            /\ spawned = num_threads
            /\ \A t \in Workers : wpc[t] = "done"
            /\ pc' = "read"
            /\ Len(written') = 1
       /\ (\E t \in TIDs : wpc'[t] # wpc[t] /\ wpc[t] # "done") =>
            written' = written]_vars

\* a POW solved by several workers has been answered with its one line
C5_Witness ==
  /\ PowAnswered
  /\ num_threads >= 2
  /\ Len(written) = 1
  /\ pre.authenticated

(***************************************************************************)
(* C6.  No nonce is ever probed by two different workers of a solve,       *)
(* however long the solve runs (the counters wrap modulo 2^64).            *)
(***************************************************************************)
C6_DisjointProbes ==
  \A t1 \in TIDs : \A t2 \in TIDs :
    t1 # t2 => probed[t1] \cap probed[t2] = {}

C8_InvalidDifficultyRefused ==
  (PowRan /\ stoi(cmd[3]).value \notin 0..40) =>
    /\ spawned = 0
    /\ \A t \in TIDs : wpc[t] = "idle"
    /\ authdata = pre.authdata
    /\ authenticated = pre.authenticated
    /\ pc = "read" => written = <<"POW_ERROR: Invalid difficulty\n">>

(***************************************************************************)
(* C9.  When no nonce of the counter range satisfies the difficulty, a     *)
(* worker that has probed every nonce of its lattice stops: it is never    *)
(* about to probe again.                                                   *)
(***************************************************************************)
Lattice(t) == {n \in Nonces : n % num_threads = t}

NoSatisfyingNonce ==
  /\ difficulty \in 0..40
  /\ \A n \in Nonces : ~Satisfies(authdata, n, difficulty)

C9_ExhaustedWorkerStops ==
  NoSatisfyingNonce =>
    \A t \in Workers : ~(wpc[t] = "probe" /\ Lattice(t) \subseteq probed[t])

(***************************************************************************)
(* C10.  An identity verb V received while the session is not              *)
(* authenticated, or without a challenge argument, is answered with        *)
(* exactly the line ERROR: V requires authentication.                      *)
(***************************************************************************)
C10_IdentityVerbRefusal ==
  (/\ pc = "read"
   /\ cmd # <<>>
   /\ cmd[1] \in IdentityVerbs
   /\ (~pre.authenticated \/ Len(cmd) < 2)) =>
    written = <<"ERROR: " \o cmd[1] \o " requires authentication\n">>

(***************************************************************************)
(* C11.  While the session is not authenticated, no line written to the    *)
(* transport starts with 40 hexadecimal characters: a command read with    *)
(* authenticated = false is never answered with a hash prefix.             *)
(***************************************************************************)
HexDigits == {Char("0123456789abcdefABCDEF", i) : i \in 1..22}

HasHashPrefix(line) ==
  /\ Len(line) >= 40
  /\ \A i \in 1..40 : Char(line, i) \in HexDigits

C11_NoHashWhileUnauthenticated ==
  ~pre.authenticated =>
    \A i \in 1..Len(written) : ~HasHashPrefix(written[i])

\* an identity verb with a challenge was refused in an unauthenticated session
C11_Witness ==
  /\ ~pre.authenticated
  /\ cmd = <<"NAME", "Q">>
  /\ written = <<"ERROR: NAME requires authentication\n">>

(***************************************************************************)
(* C12.  In an authenticated session an identity verb received with a      *)
(* challenge c is answered with the one line hex_sha1(authdata || c), a    *)
(* space and the verb's identity value, authdata being the token of the    *)
(* POW command whose answer authenticated the session.                     *)
(***************************************************************************)
\* two lowercase hex digits per byte of a digest, first byte first
RECURSIVE HexText(_, _)
HexText(digest, n) ==
  IF n = 0 THEN ""
  ELSE HexText(digest, n - 1)
         \o Char("0123456789abcdef", (digest[n - 1] \div 16) + 1)
         \o Char("0123456789abcdef", (digest[n - 1] % 16) + 1)

hex_sha1(text) == HexText(SHA1(Bytes(text)), 20)

\* the identity values of the session
IdentityValue(verb) ==
  CASE verb = "NAME"      -> "Deepak Shivanandham"
    [] verb = "MAILNUM"   -> "1"
    [] verb = "MAIL1"     -> "deepakshivanandham@hotmail.com"
    [] verb = "SKYPE"     -> "NA"
    [] verb = "BIRTHDATE" -> "06.02.1991"
    [] verb = "COUNTRY"   -> "india"
    [] verb = "ADDRNUM"   -> "2"
    [] verb = "ADDRLINE1" -> "25, GAJALAKSHMI NAGAR 1st CROSS STREET"
    [] verb = "ADDRLINE2" -> "CHROMPET,CHENNAI, TAMILNADU"

\* the commands of the history that were POW commands answered with a nonce
AnsweredPows ==
  {i \in 1..Len(history) :
     /\ Len(history[i].cmd) >= 3
     /\ history[i].cmd[1] \in {"POW", "POW2"}
     /\ history[i].written # <<>>}

\* the token of the POW that took the session from unauthenticated to
\* authenticated: the first one answered
AuthenticatingToken ==
  history[CHOOSE i \in AnsweredPows : \A j \in AnsweredPows : i <= j].cmd[2]

\* the command in hand is an identity verb with a challenge, read in an
\* authenticated session and answered
AuthenticatedIdentityCommand ==
  /\ pc = "read"
  /\ Len(cmd) >= 2
  /\ cmd[1] \in IdentityVerbs
  /\ pre.authenticated

C12_IdentityReplyUsesAuthenticatingToken ==
  AuthenticatedIdentityCommand =>
    written = <<hex_sha1(AuthenticatingToken \o cmd[2]) \o " "
                  \o IdentityValue(cmd[1]) \o "\n">>

(***************************************************************************)
(* C13.  Within one session, an authenticated identity command (a verb and *)
(* a challenge) received a second time is answered with the same bytes as  *)
(* the first time.                                                         *)
(***************************************************************************)
C13_SameCommandSameReply ==
  AuthenticatedIdentityCommand =>
    \A i \in 1..Len(history) :
      (history[i].cmd = cmd /\ history[i].pre.authenticated) =>
        history[i].written = written

(***************************************************************************)
(* C14.  Once a POW command has set authdata, no later command of the      *)
(* session changes it: whatever is read next, authdata stays what it was   *)
(* when the command was read.                                              *)
(***************************************************************************)
C14_AuthdataImmutable == pre.authdata # "" => authdata = pre.authdata

(***************************************************************************)
(* C15.  END is answered with the line OK and closes the session: after    *)
(* it communicate reads nothing more and writes nothing more.              *)
(***************************************************************************)
C15_EndClosesSession ==
  [][(cmd # <<>> /\ cmd[1] = "END") =>
       /\ written = <<"OK\n">>
       /\ nreads' = nreads
       /\ written' = written]_vars

(***************************************************************************)
(* C16.  A command whose verb is ERROR is not answered and closes the      *)
(* session: communicate has returned, nothing was written for the command, *)
(* and no step follows it.                                                 *)
(***************************************************************************)
C16_ErrorClosesSession ==
  [][/\ ~(cmd # <<>> /\ cmd[1] = "ERROR")
     /\ (cmd' # <<>> /\ cmd'[1] = "ERROR") =>
          (pc' = "returned" /\ written' = <<>> /\ SSL_write_ret' = 0)]_vars

\* ERROR was received in an authenticated session
C16_Witness ==
  /\ cmd # <<>>
  /\ cmd[1] = "ERROR"
  /\ pre.authenticated
  /\ pc = "returned"

(***************************************************************************)
(* C17.  When a read returns zero or a negative count communicate returns  *)
(* (no exception leaves it) without writing anything, and no step follows. *)
(***************************************************************************)
C17_ReadFailureEndsSession ==
  [][/\ ~(nreads > 0 /\ bytes_received <= 0)
     /\ bytes_received' <= 0 =>
          (pc' = "returned" /\ written' = <<>> /\ SSL_write_ret' = 0)]_vars

\* a read error in an authenticated session
C17_Witness ==
  /\ nreads > 0
  /\ bytes_received = -1
  /\ pre.authenticated
  /\ pc = "returned"
  /\ written = <<>>

(***************************************************************************)
(* C18.  When the write of a reply fails the session is closed: no         *)
(* further command is read and no further reply is written.                *)
(***************************************************************************)
C18_WriteFailureClosesSession ==
  [][SSL_write_ret < 0 =>
       /\ ~(nreads' > nreads /\ bytes_received' > 0)
       /\ written' \in {written, <<>>}]_vars

(***************************************************************************)
(* C19.  Whatever the chunks the transport delivers the command lines in,  *)
(* one reply line is written for each non-empty command line, none for     *)
(* ERROR: when a chunk of whole lines has been handled, as many replies    *)
(* were written as it holds such lines.                                    *)
(***************************************************************************)
\* the lines of a text: the pieces between its line feeds
RECURSIVE LinesOf(_, _, _)
LinesOf(text, i, line) ==
  IF i > Len(text) THEN (IF line = "" THEN <<>> ELSE <<line>>)
  ELSE IF Char(text, i) = "\n" THEN <<line>> \o LinesOf(text, i + 1, "")
  ELSE LinesOf(text, i + 1, line \o Char(text, i))

\* the command lines of a chunk that are owed a reply
AnswerableLines(text) ==
  LET lines == LinesOf(text, 1, "")
  IN  {k \in 1..Len(lines) :
         LET args == Split(Trim(lines[k]))
         IN  args # <<>> /\ args[1] # "ERROR"}

C19_OneReplyPerCommandLine ==
  (pc = "read" /\ nreads > 0 /\ bytes_received > 0) =>
    Len(written) = Cardinality(AnswerableLines(buffer))

(***************************************************************************)
(* C20.  A POW command with fewer than two arguments is answered with      *)
(* POW_ERROR: Insufficient arguments, starts no solver and leaves authdata *)
(* and the authenticated flag as they were.                                *)
(***************************************************************************)
C20_PowInsufficientArguments ==
  (cmd # <<>> /\ cmd[1] = "POW" /\ Len(cmd) < 3) =>
    /\ written = <<"POW_ERROR: Insufficient arguments\n">>
    /\ pc = "read"
    /\ spawned = 0
    /\ \A t \in TIDs : wpc[t] = "idle"
    /\ authdata = pre.authdata
    /\ authenticated = pre.authenticated

\* POW with the token only, in a session that stays unauthenticated
C20_Witness ==
  /\ cmd = <<"POW", "b">>
  /\ ~pre.authenticated
  /\ ~authenticated
  /\ written = <<"POW_ERROR: Insufficient arguments\n">>

(***************************************************************************)
(* C21.  A POW command whose difficulty argument is not an integer gets no *)
(* reply, changes neither authdata nor the authenticated flag, and the     *)
(* session goes on: communicate reads the next command.                    *)
(***************************************************************************)
C21_BadDifficultyIsSkipped ==
  (Len(cmd) >= 3 /\ cmd[1] = "POW" /\ stoi(cmd[3]).throws) =>
    /\ written = <<>>
    /\ authdata = pre.authdata
    /\ authenticated = pre.authenticated
    /\ pc = "read"

(***************************************************************************)
(* C22.  Every command whose verb is none of HELO, POW, END, ERROR and the *)
(* nine identity verbs, the verb POW2 included, is answered with           *)
(* ERROR Unknown command, runs no solver and changes neither flag nor      *)
(* authdata.                                                               *)
(***************************************************************************)
\* no solver thread exists for the command in hand
NoSolver == pc = "read" /\ spawned = 0 /\ \A t \in TIDs : wpc[t] = "idle"

UnknownCommandHandling ==
  /\ written = <<"ERROR Unknown command\n">>
  /\ NoSolver
  /\ authdata = pre.authdata
  /\ authenticated = pre.authenticated

C22_UnknownVerbIncludingPOW2 ==
  (cmd # <<>> /\ cmd[1] \notin {"HELO", "POW", "END", "ERROR"} \cup IdentityVerbs)
    => UnknownCommandHandling

(***************************************************************************)
(* C23.  The search on the precomputed state (hash_counter, as POW2 uses   *)
(* it) is the search on the concatenation: the digest tested for a counter *)
(* c is sha1(authdata || decimal(c)), so the decimal nonce this path       *)
(* publishes satisfies the difficulty predicate on                         *)
(* sha1(authdata || decimal(n)).                                           *)
(***************************************************************************)
\* the command in hand is a POW2 whose solver was started
Pow2Ran == Len(cmd) >= 3 /\ cmd[1] = "POW2" /\ ~stoi(cmd[3]).throws

C23_PrecomputedEqualsConcatenation ==
  Pow2Ran =>
    /\ \A t \in Workers :
         wpc[t] = "probe" =>
           ProbeHash(t) = SHA1(Bytes(authdata \o DecimalText(counter[t])))
    /\ (pc = "read" /\ difficulty \in 0..(2 * SHA_DIGEST_LENGTH)) =>
         \E n \in Nonces : /\ written = <<DecimalText(n) \o "\n">>
                           /\ Satisfies(authdata, n, difficulty)

(***************************************************************************)
(* C24.  On every path by which a connected session ends in the workflow   *)
(* of main (END, ERROR, end of stream, a read error, an exception raised   *)
(* while a command is handled), when the program finishes every spawned    *)
(* worker has been joined, the transport has been shut down and its socket *)
(* closed.                                                                 *)
(***************************************************************************)
\* no thread of a solver is left running or unjoined
NoWorkerLeft == \A t \in TIDs : wpc[t] \in {"idle", "done"}

C24_ReleasedWhenProgramEnds ==
  pc \in {"finished", "terminated"} =>
    /\ NoWorkerLeft
    /\ client.ssl_ = "shutdown"
    /\ client.socket_ = "closed"

(***************************************************************************)
(* C25.  For every 20-byte digest and every difficulty D of 0..40,         *)
(* check_difficulty(digest, D) is true exactly when the first D hex        *)
(* nibbles of the digest are zero.                                         *)
(***************************************************************************)
C25_CheckDifficultyIsLeadingZeroNibbles ==
  call.returned =>
    (call.result <=> leading_zero_nibbles(call.hash, call.difficulty))

\* 39 nibbles asked of a digest whose last byte is 0x0f: accepted
C25_Witness ==
  /\ call.returned
  /\ call.difficulty = 2 * SHA_DIGEST_LENGTH - 1
  /\ call.hash[SHA_DIGEST_LENGTH - 1] = 15
  /\ call.result

(***************************************************************************)
(* C26.  The publishing worker writes its nonce into the result slot       *)
(* before it sets the stop flag: in every reachable state, found = true    *)
(* implies that the slot already holds the winning nonce.                  *)
(***************************************************************************)
C26_FlagImpliesSlotWritten ==
  (PowRan /\ difficulty \in 0..(2 * SHA_DIGEST_LENGTH) /\ found) =>
    \E n \in Nonces : /\ found_suffix = DecimalText(n)
                      /\ Satisfies(authdata, n, difficulty)

(***************************************************************************)
(* C27.  A worker reads the flag once per batch of CHECK_INTERVAL probes:  *)
(* after the flag is set every other worker makes at most CHECK_INTERVAL   *)
(* further probes before it returns, and a worker returns only when it has *)
(* found a satisfying nonce itself or has read the flag as true.  Once the *)
(* flag is set a running worker never starts a new batch: each further     *)
(* probe that misses takes one of the passes left in its batch, batch      *)
(* never exceeds CHECK_INTERVAL, and at CHECK_INTERVAL the worker is at    *)
(* the read of the flag, so at most CHECK_INTERVAL probes follow.          *)
(***************************************************************************)
C27_StopWithinOneBatch ==
  [][\A t \in Workers :
       /\ (found /\ wpc[t] \in {"probe", "check"}) =>
            /\ wpc[t] = "probe" => batch[t] < CHECK_INTERVAL
            /\ wpc[t] = "check" => wpc'[t] \in {"check", "done"}
            /\ batch'[t] \in {batch[t], batch[t] + 1}
            /\ batch'[t] <= CHECK_INTERVAL
       /\ (wpc[t] # "done" /\ wpc'[t] = "done") =>
            \/ Satisfies(authdata, counter[t], difficulty)
            \/ wpc[t] = "check" /\ found]_vars

\* a worker that found nothing has returned on reading the flag, at the end
\* of a batch that another worker's publication fell into
C27_Witness ==
  /\ found
  /\ difficulty > 0
  /\ \E t \in Workers : /\ wpc[t] = "done"
                        /\ t \notin writers
                        /\ batch[t] = CHECK_INTERVAL
                        /\ counter[t] >= CHECK_INTERVAL * num_threads + t

(***************************************************************************)
(* C28.  HELO is answered with EHLO in every state.  HELO, END, every      *)
(* identity verb and every unknown verb leave the authenticated flag and   *)
(* authdata as they were: only a command of the POW family with at least   *)
(* two arguments changes them.                                             *)
(***************************************************************************)
\* the command in hand is a POW or a POW2 with its two arguments
PowFamilyWithArguments == Len(cmd) >= 3 /\ cmd[1] \in {"POW", "POW2"}

C28_OnlyPowChangesSession ==
  /\ (cmd # <<>> /\ cmd[1] = "HELO") => written = <<"EHLO\n">>
  /\ ~PowFamilyWithArguments =>
       /\ authdata = pre.authdata
       /\ authenticated = pre.authenticated

\* HELO answered in an authenticated session, which stays authenticated
C28_Witness ==
  /\ cmd = <<"HELO">>
  /\ pre.authenticated
  /\ pre.authdata # ""
  /\ written = <<"EHLO\n">>
  /\ authenticated
  /\ authdata = pre.authdata

(***************************************************************************)
(* C29.  A chunk made only of spaces, tabs, carriage returns and line      *)
(* feeds gets no reply and changes nothing of the session, which goes on   *)
(* with the next read.                                                     *)
(***************************************************************************)
WhitespaceOnly(text) ==
  /\ Len(text) > 0
  /\ \A i \in 1..Len(text) : Char(text, i) \in {" ", "\t", "\r", "\n"}

C29_BlankChunkIsIgnored ==
  (nreads > 0 /\ bytes_received > 0 /\ WhitespaceOnly(buffer)) =>
    /\ written = <<>>
    /\ SSL_write_ret = 0
    /\ pc = "read"
    /\ spawned = 0
    /\ authdata = pre.authdata
    /\ authenticated = pre.authenticated

\* a blank chunk has been read in an authenticated session
C29_Witness ==
  /\ buffer = " \t\r\n"
  /\ bytes_received = 4
  /\ cmd = <<>>
  /\ written = <<>>
  /\ pc = "read"
  /\ authenticated
  /\ authdata # ""

(***************************************************************************)
(* C30.  The precomputed context base_ctx is not modified after init:      *)
(* every hash_counter call works on a copy of its own, so throughout a     *)
(* solve base_ctx is the state that has absorbed authdata, and the digest  *)
(* computed for a counter is that of authdata followed by the bytes of the *)
(* counter, whatever the other workers have probed.                        *)
(***************************************************************************)
C30_BaseContextIsReadOnly ==
  (Pow2Ran /\ pc \in {"pow_spawn", "pow_join"}) =>
    /\ base_ctx = SHA1_Update(SHA1_Init, Bytes(authdata))
    /\ \A t \in Workers :
         wpc[t] = "probe" =>
           ProbeHash(t) = SHA1(Bytes(authdata) \o CounterBytes(counter[t]))

\* a worker is about to probe after another worker and itself have probed
C30_Witness ==
  /\ Pow2Ran
  /\ pc = "pow_join"
  /\ difficulty = 1
  /\ \E t, u \in Workers :
       /\ t # u
       /\ probed[t] # {}
       /\ probed[u] # {}
       /\ wpc[u] = "probe"

(***************************************************************************)
(* C31.  The session state only moves forward: the authenticated flag      *)
(* starts false, becomes true only in the step that completes a            *)
(* proof-of-work solve (every worker joined) and sets its nonce line as    *)
(* the reply, and once true no later command of the session resets it.     *)
(***************************************************************************)
C31_AuthenticatedOnlyMovesForward ==
  /\ ~authenticated
  /\ [][/\ authenticated => authenticated'
        /\ (~authenticated /\ authenticated') =>
             /\ PowFamilyWithArguments
             /\ AllJoined
             /\ pc' = "read"
             /\ written' = <<found_suffix \o "\n">>
             /\ found_suffix # ""]_vars

\* a second POW has been solved in a session that was authenticated already
C31_Witness ==
  /\ cmd = <<"POW", "Q", "1">>
  /\ pre.authenticated
  /\ pc = "read"
  /\ written # <<>>
  /\ authenticated

(***************************************************************************)
(* C32.  For every difficulty that a POW line can carry into the solver,   *)
(* check_difficulty reads only bytes at indices 0..19 of the 20-byte hash  *)
(* buffer: no probe reads outside the buffer.                              *)
(***************************************************************************)
\* the indices check_difficulty does read: an index of the loop is reached
\* when every byte before it is zero, the index of the odd nibble when the
\* loop has run to its end
BytesRead(mem, d) ==
  {i \in ReadIdx(d) : \A j \in 0..(i - 1) : j < full_bytes_of(d) => mem[j] = 0}

C32_ProbesReadInsideBuffer ==
  (PowRan /\ pc \in {"pow_spawn", "pow_join"}) =>
    \A t \in Workers :
      wpc[t] = "probe" =>
        \A garbage \in [OutOfBounds(difficulty) -> GarbageBytes] :
          BytesRead(HashMemory(ProbeHash(t), garbage), difficulty)
            \subseteq 0..(SHA_DIGEST_LENGTH - 1)

(***************************************************************************)
(* C33.  During connect, socket_manager_->close is called only on          *)
(* descriptors that socket_manager_->connect returned in this run: when an *)
(* attempt fails inside socket_manager_->connect, no descriptor such as    *)
(* the initial socket_ value 0 is closed.                                  *)
(***************************************************************************)
C33_OnlyReturnedSocketsClosed ==
  \A i \in 1..Len(conn.closes) : conn.closes[i] \in conn.returned

(***************************************************************************)
(* C34.  connect makes at most max_attempts (10) attempts; attempt k       *)
(* (from 1) uses ports[(k-1) mod n] of the n configured ports; it returns  *)
(* at the first attempt whose socket connect and handshake both succeed,   *)
(* with connected_ = true, and makes no further attempt; when all the      *)
(* attempts fail the exception propagates and connected_ stays false.      *)
(***************************************************************************)
\* the k-th element, counted from 0, of the configured ports
PortAt(k) == conn.ports[k + 1]

AttemptsFollowThePorts ==
  /\ Len(conn.tried) <= max_attempts
  /\ \A k \in 1..Len(conn.tried) :
       conn.tried[k] = PortAt((k - 1) % Len(conn.ports))
  /\ (conn.at = "connected" /\ conn.calls = <<>> /\ ~conn.destroyed) =>
       client.connected_
  /\ conn.at \in {"start", "socket", "tls", "inner_catch", "outer_catch",
                  "failed"} => ~client.connected_
  /\ conn.at = "failed" => Len(conn.tried) \in {0, max_attempts}

C34_ConnectRetries ==
  /\ []AttemptsFollowThePorts
  /\ [][conn.at = "connected" =>
          conn'.at = "connected" /\ conn'.tried = conn.tried]_vars

\* connected at the fourth attempt, which is back on the first of three ports
C34_Witness ==
  /\ conn.at = "connected"
  /\ client.connected_
  /\ Len(conn.ports) = 3
  /\ Len(conn.tried) = 4
  /\ conn.port = conn.ports[1]

(***************************************************************************)
(* C35.  Every socket that socket_manager_->connect returned in a failed   *)
(* attempt (attach or handshake failure) is closed exactly once before the *)
(* next attempt starts or the exception propagates: a failed connect       *)
(* neither leaks an opened socket nor closes one twice.                    *)
(***************************************************************************)
C35_FailedAttemptClosesItsSocketOnce ==
  (conn.at \in {"socket", "failed"} /\ conn.got # kInvalidSocket) =>
    /\ conn.got_closes = 1
    /\ conn.got \notin conn.fds

(***************************************************************************)
(* C36.  disconnect is idempotent: over any sequence of disconnect calls   *)
(* followed by destruction, the transport of a connected client is shut    *)
(* down and closed exactly once.  The first disconnect on a connected      *)
(* client calls shutdown and close and clears connected_; every later      *)
(* disconnect and the destructor do nothing; on a client that never        *)
(* connected they do nothing at all.                                       *)
(***************************************************************************)
\* disconnect has been called, or the destructor has run
Released == conn.destroyed \/ \E i \in 1..Len(conn.calls) : conn.calls[i] = "disconnect"

ReleasedExactlyOnce ==
  /\ conn.at = "connected" =>
       /\ conn.shutdowns = (IF client.connected_ THEN 0 ELSE 1)
       /\ conn.got_closes = conn.shutdowns
       /\ Released <=> ~client.connected_
  /\ conn.at = "failed" => conn.shutdowns = 0

C36_DisconnectIdempotent ==
  /\ []ReleasedExactlyOnce
  /\ [][(conn.at \in {"connected", "failed"} /\ ~client.connected_) =>
          /\ client' = client
          /\ conn'.closes = conn.closes
          /\ conn'.shutdowns = conn.shutdowns
          /\ conn'.fds = conn.fds]_vars

\* two disconnect calls and the destructor on a client that was connected
C36_Witness ==
  /\ conn.at = "connected"
  /\ conn.calls = <<"disconnect", "disconnect">>
  /\ conn.destroyed
  /\ conn.shutdowns = 1
  /\ conn.got_closes = 1

(***************************************************************************)
(* C37.  communicate called on a client that is not connected (connect     *)
(* never succeeded, or disconnect already ran) throws Not connected to     *)
(* server before any read or write on the transport, and leaves the state  *)
(* of the client as it was.                                                *)
(***************************************************************************)
\* the step is a call of communicate
CommunicateCalled ==
  /\ Len(conn'.calls) = Len(conn.calls) + 1
  /\ conn'.calls[Len(conn'.calls)] = "communicate"

C37_CommunicateNeedsConnection ==
  [][(CommunicateCalled /\ ~client.connected_) =>
       /\ conn'.thrown = "Not connected to server"
       /\ client' = client
       /\ conn'.socket_ = conn.socket_
       /\ conn'.fds = conn.fds
       /\ conn'.closes = conn.closes
       /\ conn'.shutdowns = conn.shutdowns
       /\ UNCHANGED <<pc, nreads, written, sessionVars, transportVars>>]_vars

\* communicate has thrown on a client that was connected and disconnected
C37_Witness ==
  /\ conn.at = "connected"
  /\ conn.calls = <<"disconnect", "communicate">>
  /\ conn.thrown = "Not connected to server"
  /\ ~client.connected_
  /\ nreads = 0

====
